---- MODULE Spec2Model ----
(***************************************************************************)
(* Model of assay-cli: the credential resolver, the expiration check, the  *)
(* request pipeline (request/response interceptors with rate-limit retry)  *)
(* and the command handlers (auth login/status/rotate, documents, themes). *)
(*                                                                         *)
(* JavaScript strings that the code inspects character by character (API   *)
(* keys, header values) are sequences of one-character strings.  An        *)
(* optional value (undefined/null) is the empty tuple None, a present      *)
(* value v is the one-element tuple Some(v).  A JavaScript number is       *)
(* Num(n) or NaN.  Times are milliseconds.                                 *)
(***************************************************************************)
EXTENDS Integers, Sequences, FiniteSets, TLC

\* ------------------------------------------------------------------------
\* Bounds of the model
\* ------------------------------------------------------------------------
MaxCommands == 2
MaxQueries == 1
MaxTail == 3
MaxStr == 2

\* ------------------------------------------------------------------------
\* Program constants
\* ------------------------------------------------------------------------
MaxRetries == 3
MinWaitMs == 1000
MaxWaitMs == 60000
FallbackMs == 60000
PrefixLen == 9
ThirtyMinutes == 30 * 60 * 1000
NanTimerMs == 1

\* Clock value at the start of a behaviour (milliseconds since the epoch
\* of the model): 10000 s.
StartTime == 10000 * 1000

\* ------------------------------------------------------------------------
\* Optional values and JavaScript numbers
\* ------------------------------------------------------------------------
None == << >>
Some(v) == << v >>

NaN == << >>
Num(n) == << n >>
IsNaN(x) == x = NaN

\* Math.min / Math.max: NaN if either argument is NaN.
MathMin(a, b) == IF IsNaN(a) \/ IsNaN(b) THEN NaN
                 ELSE IF a[1] <= b[1] THEN a ELSE b
MathMax(a, b) == IF IsNaN(a) \/ IsNaN(b) THEN NaN
                 ELSE IF a[1] >= b[1] THEN a ELSE b
NumSub(a, b) == IF IsNaN(a) \/ IsNaN(b) THEN NaN ELSE Num(a[1] - b[1])
NumMul(a, b) == IF IsNaN(a) \/ IsNaN(b) THEN NaN ELSE Num(a[1] * b[1])

\* ------------------------------------------------------------------------
\* Strings as character sequences
\* ------------------------------------------------------------------------
Prefix == <<"a", "s", "k", "_", "l", "i", "v", "e", "_">>
Underscore == "_"

StartsWith(s, p) == Len(s) >= Len(p) /\ SubSeq(s, 1, Len(p)) = p
Slice(s, n) == SubSeq(s, n + 1, Len(s))

\* String.prototype.split(sep): "" splits into [""].
RECURSIVE Split(_, _)
Split(s, sep) ==
  IF \A i \in 1..Len(s) : s[i] # sep THEN << s >>
  ELSE LET i == CHOOSE j \in 1..Len(s) :
                  s[j] = sep /\ \A k \in 1..(j - 1) : s[k] # sep
       IN << SubSeq(s, 1, i - 1) >> \o Split(SubSeq(s, i + 1, Len(s)), sep)

\* Array.prototype.join(sep)
RECURSIVE Join(_, _)
Join(parts, sep) ==
  IF Len(parts) = 0 THEN << >>
  ELSE IF Len(parts) = 1 THEN parts[1]
  ELSE parts[1] \o << sep >> \o Join(Tail(parts), sep)

\* A JavaScript string is truthy iff it is present and non-empty.
Truthy(opt) == opt # None /\ opt[1] # << >>

Digits == {"0", "1", "2", "3", "4", "5", "6", "7", "8", "9"}
DigitVal(c) == CASE c = "0" -> 0 [] c = "1" -> 1 [] c = "2" -> 2
                 [] c = "3" -> 3 [] c = "4" -> 4 [] c = "5" -> 5
                 [] c = "6" -> 6 [] c = "7" -> 7 [] c = "8" -> 8
                 [] c = "9" -> 9

RECURSIVE DigitsValue(_, _)
DigitsValue(s, acc) ==
  IF Len(s) = 0 \/ Head(s) \notin Digits THEN acc
  ELSE DigitsValue(Tail(s), acc * 10 + DigitVal(Head(s)))

\* parseInt(s): optional sign, then the longest prefix of decimal digits;
\* NaN when there is no digit.
ParseInt(s) ==
  LET neg == Len(s) > 0 /\ Head(s) = "-"
      body == IF Len(s) > 0 /\ Head(s) \in {"-", "+"} THEN Tail(s) ELSE s
  IN IF Len(body) = 0 \/ Head(body) \notin Digits THEN NaN
     ELSE IF neg THEN Num(0 - DigitsValue(body, 0))
     ELSE Num(DigitsValue(body, 0))

\* JavaScript relational operators on numbers: false when an operand is NaN.
NumLe(a, b) == ~IsNaN(a) /\ ~IsNaN(b) /\ a[1] <= b[1]
NumLt(a, b) == ~IsNaN(a) /\ ~IsNaN(b) /\ a[1] < b[1]

\* ------------------------------------------------------------------------
\* Timestamps and Config (src/src/types/config.ts)
\* ------------------------------------------------------------------------
\* A timestamp string is an ISO 8601 instant ("iso", with its epoch
\* milliseconds), the empty string ("empty") or any other text ("text").
Iso(ms) == [tag |-> "iso", ms |-> ms]
EmptyTs == [tag |-> "empty", ms |-> 0]
TextTs == [tag |-> "text", ms |-> 0]

\* new Date(s).getTime(): the instant of an ISO string, NaN otherwise.
DateParse(ts) == IF ts.tag = "iso" THEN Num(ts.ms) ELSE NaN

DefaultBaseUrl == "https://us-east4-pdfsummaries.cloudfunctions.net/api"
ClientBaseUrl == "https://api.assay.cirrusly-clever.com"

Config(keyId, expiresAt, baseUrl, outputFormat) ==
  [keyId |-> keyId, apiKeyExpiresAt |-> expiresAt,
   baseUrl |-> baseUrl, outputFormat |-> outputFormat]

DefaultConfig == Config(None, None, DefaultBaseUrl, "json")

\* The config file: absent, present with unparsable content, or present
\* with the JSON document of a Config.
AbsentFile == [kind |-> "absent", cfg |-> DefaultConfig]
GarbageFile == [kind |-> "garbage", cfg |-> DefaultConfig]
JsonFile(cfg) == [kind |-> "json", cfg |-> cfg]

\* Mutant of LoadConfig: the default Config also when the content does not
\* parse.
LoadConfig_DefaultOnGarbage(f) ==
  IF f.kind = "json" THEN [threw |-> FALSE, cfg |-> f.cfg]
  ELSE [threw |-> FALSE, cfg |-> DefaultConfig]

\* loadConfig(): the default Config when the file is absent, throws when
\* the content does not parse, else the parsed document.
LoadConfig(f) ==
  IF f.kind = "absent" THEN [threw |-> FALSE, cfg |-> DefaultConfig]
  ELSE IF f.kind = "garbage" THEN [threw |-> TRUE, cfg |-> DefaultConfig]
  ELSE [threw |-> FALSE, cfg |-> f.cfg]

\* ------------------------------------------------------------------------
\* The text of the config file (saveConfig / loadConfig, apiClient.ts)
\* ------------------------------------------------------------------------
\* The text is a sequence of characters.  In a Config written as text every
\* field is an optional string of characters; baseUrl and outputFormat are
\* present.
Quote == "\""
Backslash == "\\"
Newline == "\n"
Whitespace == {" ", Newline}

KeyIdName == <<"k", "e", "y", "I", "d">>
ExpiresAtName ==
  <<"a", "p", "i", "K", "e", "y", "E", "x", "p", "i", "r", "e", "s", "A", "t">>
BaseUrlName == <<"b", "a", "s", "e", "U", "r", "l">>
OutputFormatName ==
  <<"o", "u", "t", "p", "u", "t", "F", "o", "r", "m", "a", "t">>

\* Mutant of JSONEscape: the characters written as they are.
JSONEscape_Raw(s) == s

\* The characters of string s as JSON.stringify writes them between the
\* quotes: the quote, the backslash and the control characters escaped.
RECURSIVE JSONEscape(_)
JSONEscape(s) ==
  IF Len(s) = 0 THEN << >>
  ELSE (CASE Head(s) = Quote -> << Backslash, Quote >>
          [] Head(s) = Backslash -> << Backslash, Backslash >>
          [] Head(s) = Newline -> << Backslash, "n" >>
          [] OTHER -> << Head(s) >>) \o JSONEscape(Tail(s))

JSONString(s) == << Quote >> \o JSONEscape(s) \o << Quote >>

\* The properties of cfg that JSON.stringify writes: those that are not
\* undefined.
Members(cfg) ==
  SelectSeq(<< << KeyIdName, cfg.keyId >>,
               << ExpiresAtName, cfg.apiKeyExpiresAt >>,
               << BaseUrlName, cfg.baseUrl >>,
               << OutputFormatName, cfg.outputFormat >> >>,
            LAMBDA m : m[2] # None)

\* One line per member, indented by two spaces, separated by commas.
RECURSIVE JSONMembers(_)
JSONMembers(ms) ==
  IF Len(ms) = 0 THEN << >>
  ELSE << Newline, " ", " " >> \o JSONString(ms[1][1]) \o << ":", " " >>
         \o JSONString(ms[1][2][1])
         \o (IF Len(ms) > 1 THEN << "," >> ELSE << >>)
         \o JSONMembers(Tail(ms))

\* JSON.stringify(config, null, 2)
JSONStringify(cfg) ==
  LET ms == Members(cfg)
  IN IF Len(ms) = 0 THEN << "{", "}" >>
     ELSE << "{" >> \o JSONMembers(ms) \o << Newline, "}" >>

\* JSON.parse for the documents of the model: an object whose members are
\* strings.  A parsing step returns whether it succeeded, the position
\* after what it read and the value read.
ParseFailure == [ok |-> FALSE, pos |-> 0, val |-> << >>]
Parsed(pos, val) == [ok |-> TRUE, pos |-> pos, val |-> val]

RECURSIVE SkipWhitespace(_, _)
SkipWhitespace(t, i) ==
  IF i <= Len(t) /\ t[i] \in Whitespace THEN SkipWhitespace(t, i + 1) ELSE i

\* The characters of a string up to its closing quote, from position i.
RECURSIVE ScanString(_, _, _)
ScanString(t, i, acc) ==
  IF i > Len(t) THEN ParseFailure
  ELSE IF t[i] = Quote THEN Parsed(i + 1, acc)
  ELSE IF t[i] = Backslash
  THEN IF i + 1 > Len(t) THEN ParseFailure
       ELSE IF t[i + 1] = Quote THEN ScanString(t, i + 2, Append(acc, Quote))
       ELSE IF t[i + 1] = Backslash
       THEN ScanString(t, i + 2, Append(acc, Backslash))
       ELSE IF t[i + 1] = "n" THEN ScanString(t, i + 2, Append(acc, Newline))
       ELSE ParseFailure
  ELSE IF t[i] = Newline THEN ParseFailure
  ELSE ScanString(t, i + 1, Append(acc, t[i]))

ParseString(t, i) ==
  IF i <= Len(t) /\ t[i] = Quote THEN ScanString(t, i + 1, << >>)
  ELSE ParseFailure

\* The members of an object from position i, added to obj (a later member
\* of the same name replaces an earlier one), up to the closing brace.
RECURSIVE ParseMembers(_, _, _)
ParseMembers(t, i, obj) ==
  LET k == ParseString(t, i)
  IN IF ~k.ok THEN ParseFailure
     ELSE LET c == SkipWhitespace(t, k.pos)
          IN IF c > Len(t) \/ t[c] # ":" THEN ParseFailure
             ELSE LET v == ParseString(t, SkipWhitespace(t, c + 1))
                  IN IF ~v.ok THEN ParseFailure
                     ELSE LET e == SkipWhitespace(t, v.pos)
                              o == (k.val :> v.val) @@ obj
                          IN IF e > Len(t) THEN ParseFailure
                             ELSE IF t[e] = "}" THEN Parsed(e + 1, o)
                             ELSE IF t[e] = ","
                             THEN ParseMembers(t, SkipWhitespace(t, e + 1), o)
                             ELSE ParseFailure

JSONParse(t) ==
  LET i == SkipWhitespace(t, 1)
  IN IF i > Len(t) \/ t[i] # "{" THEN ParseFailure
     ELSE LET j == SkipWhitespace(t, i + 1)
              r == IF j <= Len(t) /\ t[j] = "}" THEN Parsed(j + 1, << >>)
                   ELSE ParseMembers(t, j, << >>)
          IN IF r.ok /\ SkipWhitespace(t, r.pos) = Len(t) + 1 THEN r
             ELSE ParseFailure

\* The property name of the parsed object obj: undefined when it has none.
Property(obj, name) ==
  IF name \in DOMAIN obj THEN Some(obj[name]) ELSE None

\* The object that JSON.parse returned, read as a Config.
ConfigOf(obj) ==
  Config(Property(obj, KeyIdName), Property(obj, ExpiresAtName),
         Property(obj, BaseUrlName), Property(obj, OutputFormatName))

\* What loadConfig finds at the config path when the file has the given
\* content (None: there is no file).
FileOf(content) ==
  IF content = None THEN AbsentFile
  ELSE LET p == JSONParse(content[1])
       IN IF p.ok THEN JsonFile(ConfigOf(p.val)) ELSE GarbageFile

\* ------------------------------------------------------------------------
\* Secret Store Adapter (src/src/utils/keychain.ts)
\* ------------------------------------------------------------------------
\* Mutant of IsKeychainAvailable: the vault probed on every call.
IsKeychainAvailable_NoCache(works, cache) ==
  [available |-> works, cache |-> Some(works), probes |-> 1]

\* isKeychainAvailable(): the cached flag when set, else one probe of the
\* vault whose outcome (works) is cached.
IsKeychainAvailable(works, cache) ==
  IF cache # None
  THEN [available |-> cache[1], cache |-> cache, probes |-> 0]
  ELSE [available |-> works, cache |-> Some(works), probes |-> 1]

\* What a call of the adapter did: the error it threw ("none" when it
\* returned), the secret it returned, the vault entry after it, the
\* availability it went by and cached, and the accesses it made.
AdapterResult(error, secret, v, a, reads) ==
  [error |-> error, secret |-> secret, vault |-> v, available |-> a.available,
   cache |-> a.cache, probes |-> a.probes, reads |-> reads]

\* Mutant of GetApiKeySecret: the error of the read not caught.
GetApiKeySecret_NoCatch(v, works, cache, readFails) ==
  LET a == IsKeychainAvailable(works, cache)
  IN IF ~a.available THEN AdapterResult("none", None, v, a, 0)
     ELSE IF readFails THEN AdapterResult("VaultError", None, v, a, 1)
     ELSE AdapterResult("none", v, v, a, 1)

\* getApiKeySecret(): null when the vault is unavailable or the read
\* throws, else what the vault holds (null when there is no entry).
GetApiKeySecret(v, works, cache, readFails) ==
  LET a == IsKeychainAvailable(works, cache)
  IN IF ~a.available THEN AdapterResult("none", None, v, a, 0)
     ELSE IF readFails THEN AdapterResult("none", None, v, a, 1)
     ELSE AdapterResult("none", v, v, a, 1)

\* storeApiKeySecret(keySecret): throws when the vault is unavailable and
\* when keytar.setPassword throws (writeFails), else the entry is written.
StoreApiKeySecret(keySecret, v, works, cache, writeFails) ==
  LET a == IsKeychainAvailable(works, cache)
  IN IF ~a.available THEN AdapterResult("StoreUnavailable", None, v, a, 0)
     ELSE IF writeFails THEN AdapterResult("StoreWriteError", None, v, a, 0)
     ELSE AdapterResult("none", None, Some(keySecret), a, 0)

\* deleteApiKeySecret(): nothing when the vault is unavailable or
\* keytar.deletePassword throws (deleteFails), else the entry is removed.
DeleteApiKeySecret(v, works, cache, deleteFails) ==
  LET a == IsKeychainAvailable(works, cache)
  IN IF ~a.available THEN AdapterResult("none", None, v, a, 0)
     ELSE IF deleteFails THEN AdapterResult("none", None, v, a, 0)
     ELSE AdapterResult("none", None, None, a, 0)

\* ------------------------------------------------------------------------
\* Credential Resolver (src/src/utils/apiClient.ts)
\* ------------------------------------------------------------------------
\* What getApiKey returns and does: the key (or null), whether loadConfig
\* threw, the accesses made (config reads, vault probes, vault reads), what
\* the Secret Store adapter returned, and the availability cache.
Resolved(key, threw, cfgReads, gs) ==
  [key |-> key, threw |-> threw, cfgReads |-> cfgReads, probes |-> gs.probes,
   reads |-> gs.reads, secret |-> gs.secret, cache |-> gs.cache]

\* No access to the Secret Store.
NoStoreAccess(cache) ==
  [secret |-> None, cache |-> cache, probes |-> 0, reads |-> 0]

\* Mutant of ResolveFromStore: the secret fetched before the key
\* identifier is looked at.
ResolveFromStore_SecretFirst(f, v, works, cache, readFails) ==
  LET lc == LoadConfig(f)
      gs == GetApiKeySecret(v, works, cache, readFails)
  IN IF lc.threw THEN Resolved(None, TRUE, 1, NoStoreAccess(cache))
     ELSE IF ~Truthy(gs.secret) \/ ~Truthy(lc.cfg.keyId)
     THEN Resolved(None, FALSE, 1, gs)
     ELSE Resolved(Some(Prefix \o lc.cfg.keyId[1] \o << Underscore >>
                          \o gs.secret[1]),
                   FALSE, 1, gs)

\* Mutant of ResolveFromStore: the key recomposed without the separator.
ResolveFromStore_NoSeparator(f, v, works, cache, readFails) ==
  LET lc == LoadConfig(f)
  IN IF lc.threw THEN Resolved(None, TRUE, 1, NoStoreAccess(cache))
     ELSE IF ~Truthy(lc.cfg.keyId)
     THEN Resolved(None, FALSE, 1, NoStoreAccess(cache))
     ELSE LET gs == GetApiKeySecret(v, works, cache, readFails)
          IN IF ~Truthy(gs.secret) THEN Resolved(None, FALSE, 1, gs)
             ELSE Resolved(Some(Prefix \o lc.cfg.keyId[1] \o gs.secret[1]),
                           FALSE, 1, gs)

\* getApiKey(), lines 28-41: the key from the Config's key identifier and
\* the Secret Store's secret.  f is the config file, v the vault entry.
ResolveFromStore(f, v, works, cache, readFails) ==
  LET lc == LoadConfig(f)
  IN IF lc.threw THEN Resolved(None, TRUE, 1, NoStoreAccess(cache))
     ELSE IF ~Truthy(lc.cfg.keyId)
     THEN Resolved(None, FALSE, 1, NoStoreAccess(cache))
     ELSE LET gs == GetApiKeySecret(v, works, cache, readFails)
          IN IF ~Truthy(gs.secret) THEN Resolved(None, FALSE, 1, gs)
             ELSE Resolved(Some(Prefix \o lc.cfg.keyId[1] \o << Underscore >>
                                  \o gs.secret[1]),
                           FALSE, 1, gs)

\* Mutant of GetApiKey: the stored key preferred to the environment
\* variable.
GetApiKey_StoreFirst(e, f, v, works, cache, readFails) ==
  LET r == ResolveFromStore(f, v, works, cache, readFails)
  IN IF ~Truthy(r.key) /\ ~r.threw /\ Truthy(e)
     THEN Resolved(e, FALSE, r.cfgReads, r)
     ELSE r

\* getApiKey(): e is ASSAY_API_KEY; the environment variable first.
GetApiKey(e, f, v, works, cache, readFails) ==
  IF Truthy(e) THEN Resolved(e, FALSE, 0, NoStoreAccess(cache))
  ELSE ResolveFromStore(f, v, works, cache, readFails)

\* Mutant of CheckExpiration: the difference taken the wrong way round.
CheckExpiration_SignFlipped(expiresAt, nowMs) ==
  IF expiresAt = None \/ expiresAt[1].tag = "empty"
  THEN [expired |-> FALSE, expiringSoon |-> FALSE, message |-> "none"]
  ELSE LET diff == NumSub(Num(nowMs), DateParse(expiresAt[1]))
       IN IF NumLe(diff, Num(0))
          THEN [expired |-> TRUE, expiringSoon |-> FALSE, message |-> "expired"]
          ELSE IF NumLt(diff, Num(ThirtyMinutes))
          THEN [expired |-> FALSE, expiringSoon |-> TRUE, message |-> "warning"]
          ELSE [expired |-> FALSE, expiringSoon |-> FALSE, message |-> "none"]

\* Mutant of CheckExpiration: the 30 minute window closed with <=.
CheckExpiration_InclusiveWindow(expiresAt, nowMs) ==
  IF expiresAt = None \/ expiresAt[1].tag = "empty"
  THEN [expired |-> FALSE, expiringSoon |-> FALSE, message |-> "none"]
  ELSE LET diff == NumSub(DateParse(expiresAt[1]), Num(nowMs))
       IN IF NumLe(diff, Num(0))
          THEN [expired |-> TRUE, expiringSoon |-> FALSE, message |-> "expired"]
          ELSE IF NumLe(diff, Num(ThirtyMinutes))
          THEN [expired |-> FALSE, expiringSoon |-> TRUE, message |-> "warning"]
          ELSE [expired |-> FALSE, expiringSoon |-> FALSE, message |-> "none"]

\* checkExpiration(expiresAt): expiresAt is the optional stored timestamp,
\* nowMs is Date.now().
CheckExpiration(expiresAt, nowMs) ==
  IF expiresAt = None \/ expiresAt[1].tag = "empty"
  THEN [expired |-> FALSE, expiringSoon |-> FALSE, message |-> "none"]
  ELSE LET diff == NumSub(DateParse(expiresAt[1]), Num(nowMs))
       IN IF NumLe(diff, Num(0))
          THEN [expired |-> TRUE, expiringSoon |-> FALSE, message |-> "expired"]
          ELSE IF NumLt(diff, Num(ThirtyMinutes))
          THEN [expired |-> FALSE, expiringSoon |-> TRUE, message |-> "warning"]
          ELSE [expired |-> FALSE, expiringSoon |-> FALSE, message |-> "none"]

\* ------------------------------------------------------------------------
\* Rate-limit wait (response error interceptor, apiClient.ts 127-129)
\* ------------------------------------------------------------------------
\* header is the optional X-RateLimit-Reset value; t1 and t2 are the two
\* readings of Date.now() (t1 in the fallback, t2 in the subtraction).
ResetTime(header, t1) ==
  IF Truthy(header) THEN NumMul(ParseInt(header[1]), Num(1000))
  ELSE Num(t1 + FallbackMs)

WaitMs(header, t1, t2) ==
  MathMax(MathMin(NumSub(ResetTime(header, t1), Num(t2)), Num(MaxWaitMs)),
          Num(MinWaitMs))

\* sleep(ms): setTimeout fires after ms milliseconds; a delay that is NaN
\* is replaced by the runtime's minimum timer delay.
Sleep(ms) == IF IsNaN(ms) THEN NanTimerMs ELSE ms[1]

\* Mutant of IsRateLimited: every error status from 429 up taken for a
\* rate limit.
IsRateLimited_ServerErrors(a) == a.type = "http" /\ a.status >= 429

\* error.response?.status === 429, for the answer a to an attempt.
IsRateLimited(a) == a.type = "http" /\ a.status = 429

\* Mutant of CanRetry: the bound compared with <= instead of <.
CanRetry_OneMore(count) == count <= MaxRetries

\* Whether the 429 handler retries, given the request's __retryCount.
CanRetry(count) == count < MaxRetries

\* ------------------------------------------------------------------------
\* Login helpers (src/src/commands/auth.ts)
\* ------------------------------------------------------------------------
\* The prompt's validate callback.
ValidateInput(input) == StartsWith(input, Prefix)

\* Mutant of ParseApiKey: a single segment after the prefix accepted.
ParseApiKey_OneSegment(apiKey) ==
  IF ~StartsWith(apiKey, Prefix) THEN None
  ELSE LET parts == Split(Slice(apiKey, PrefixLen), Underscore)
       IN IF Len(parts) < 1 THEN None
          ELSE Some([keyId |-> parts[1],
                     keySecret |-> Join(Tail(parts), Underscore)])

\* parseApiKey(apiKey): null, or the key identifier and the secret.
ParseApiKey(apiKey) ==
  IF ~StartsWith(apiKey, Prefix) THEN None
  ELSE LET parts == Split(Slice(apiKey, PrefixLen), Underscore)
       IN IF Len(parts) < 2 THEN None
          ELSE Some([keyId |-> parts[1],
                     keySecret |-> Join(Tail(parts), Underscore)])

\* Mutant of TestApiKey: the data of the response not looked at.
TestApiKey_SuccessOnly(r) ==
  IF r.kind = "ok" /\ r.success
  THEN [valid |-> TRUE, expiresAt |-> r.expiresAt]
  ELSE [valid |-> FALSE, expiresAt |-> None]

\* testApiKey(apiKey): r is the outcome of GET /api/v1/me.
TestApiKey(r) ==
  IF r.kind = "ok" /\ r.success /\ r.hasData
  THEN [valid |-> TRUE, expiresAt |-> r.expiresAt]
  ELSE [valid |-> FALSE, expiresAt |-> None]

\* ------------------------------------------------------------------------
\* Input sets
\* ------------------------------------------------------------------------
TailChars == {"a", "_"}
Tails == UNION {[1..n -> TailChars] : n \in 0..MaxTail}

\* What the user may paste at the login prompt.
PastedKeys ==
  {Prefix \o t : t \in Tails}
    \cup {<< >>,
          <<"n", "o", "t", "_", "a", "_", "k", "e", "y">>,
          <<"a", "s", "k", "_", "l", "i", "v", "e">>,
          <<"a", "s", "k", "_", "t", "e", "s", "t", "_", "a", "_", "a">>,
          <<"a", "s", "k", "_", "l", "i", "v", "e", "_", "b", "_", "b">>}

\* What the user of a second login process may paste: a key that none of
\* PastedKeys shares its identifier or its secret with, and a key without
\* a secret segment.
PeerKeys == {Prefix \o <<"c", "_", "d">>, Prefix \o <<"c">>}

\* Values of ASSAY_API_KEY: unset, set to the empty string, set to a key.
EnvKey == <<"e", "n", "v">>
EnvValues == {None, Some(<< >>), Some(EnvKey)}

\* Vault entries present before the first command (none that the process
\* could see on a host whose vault does not answer).
VaultValues == {None, Some(<< >>), Some(<<"b">>)}

\* Stored expirations: none, empty, unparsable, and instants around the
\* start time and around the 30 minute window.
StoredExpirations ==
  {None, Some(EmptyTs), Some(TextTs),
   Some(Iso(StartTime - 1)), Some(Iso(StartTime)),
   Some(Iso(StartTime + MinWaitMs)), Some(Iso(StartTime + ThirtyMinutes))}

\* Config files present before the first command.
InitialFiles ==
  {AbsentFile, GarbageFile}
    \cup {JsonFile(Config(Some(<<"a">>), x, DefaultBaseUrl, "json")) :
            x \in StoredExpirations}
    \cup {JsonFile(Config(None, None, DefaultBaseUrl, "table")),
          JsonFile(Config(None, Some(Iso(StartTime - 1)), DefaultBaseUrl, "json")),
          JsonFile(Config(Some(<< >>), None, DefaultBaseUrl, "json"))}

\* X-RateLimit-Reset values of a 429 answer (epoch seconds as text):
\* absent, empty, not a number, the epoch, 60 s and 10 min after the start.
ResetHeaders ==
  {None, Some(<< >>), Some(<<"a", "b", "c">>), Some(<<"0">>),
   Some(<<"1", "0", "0", "6", "0">>), Some(<<"1", "0", "6", "0", "0">>)}

\* Milliseconds that may pass between two successive readings of the clock
\* in one expression.
Drifts == {0, 1}

\* Answers of the server to one HTTP attempt of the pipeline.
\* expires is the X-Api-Key-Expires-At header of the answer.
HttpAnswer(status, reset, hasBody) ==
  [type |-> "http", status |-> status, reset |-> reset, hasBody |-> hasBody,
   expires |-> None]
NetworkError ==
  [type |-> "network", status |-> 0, reset |-> None, hasBody |-> FALSE,
   expires |-> None]
RateLimitAnswers == {HttpAnswer(429, h, TRUE) : h \in ResetHeaders}
\* X-Api-Key-Expires-At values of a successful answer: empty, and an instant
\* that no config file present before the first command holds.
ExpiresHeaders == {Some(EmptyTs), Some(Iso(StartTime + 2 * ThirtyMinutes))}
RenewalAnswers ==
  {[HttpAnswer(200, None, TRUE) EXCEPT !.expires = x] : x \in ExpiresHeaders}
Answers ==
  {HttpAnswer(200, None, TRUE), HttpAnswer(404, None, TRUE),
   HttpAnswer(500, None, FALSE), NetworkError}
    \cup RateLimitAnswers \cup RenewalAnswers

\* Outcomes of the login verification call GET /api/v1/me.
VerifyAnswer(kind, success, hasData, expiresAt) ==
  [kind |-> kind, success |-> success, hasData |-> hasData, expiresAt |-> expiresAt]
VerifyAnswers ==
  {VerifyAnswer("ok", TRUE, TRUE, x) :
     x \in {None, Some(Iso(StartTime + 2 * ThirtyMinutes))}}
    \cup {VerifyAnswer("ok", FALSE, TRUE, None),
          VerifyAnswer("ok", TRUE, FALSE, None),
          VerifyAnswer("http_error", FALSE, FALSE, None),
          VerifyAnswer("network", FALSE, FALSE, None),
          VerifyAnswer("timeout", FALSE, FALSE, None)}

\* Outcomes of the verification call of a second login process: the key
\* confirmed with an expiration no other answer carries, and not confirmed.
PeerVerifyAnswers ==
  {VerifyAnswer("ok", TRUE, TRUE, Some(Iso(StartTime + 3 * ThirtyMinutes))),
   VerifyAnswer("ok", FALSE, TRUE, None)}

QueryCommands == {"list", "get", "summary", "search", "themes"}

\* Values of ASSAY_BASE_URL: unset, set to the address of another server.
OtherBaseUrl == "https://staging.assay.test"
EnvBaseUrls == {None, Some(OtherBaseUrl)}

\* createApiClient(): the baseURL of the client, in a process whose
\* ASSAY_BASE_URL is envUrl.
BaseURL(envUrl) == ClientBaseUrl

\* --filter and --visibility on the command line of documents list and
\* documents search: not given, or given with a value.
FilterFlags == {None, Some(""), Some("personal")}
VisibilityFlags == {None, Some("all")}
Flags == [filter : FilterFlags, visibility : VisibilityFlags]
NoFlags == [filter |-> None, visibility |-> None]
FilterDefault == "public"
VisibilityDefault == "private"

\* commander: the value of an option is the one given, else its default.
OptionValue(given, default) == IF given = None THEN default ELSE given[1]

\* params.filter: options.filter || options.visibility
FilterParam(flags) ==
  LET filter == OptionValue(flags.filter, FilterDefault)
      visibility == OptionValue(flags.visibility, VisibilityDefault)
  IN IF filter # "" THEN filter ELSE visibility

\* The commands that take --filter and --visibility.
FilterCommands == {"list", "search"}

\* Strings of at most n characters, some of which JSON escapes.
StrChars == {"a", Quote, Backslash, Newline}
Strings(n) == UNION {[1..k -> StrChars] : k \in 0..n}
Optional(S) == {None} \cup {Some(x) : x \in S}
OutputFormats ==
  {<<"j", "s", "o", "n">>, <<"t", "a", "b", "l", "e">>, <<"y", "a", "m", "l">>}

\* The Configs handed to saveConfig: with and without key identifier and
\* expiration.
SavedConfigs ==
  {Config(k, e, Some(b), Some(o)) :
     k \in Optional(Strings(MaxStr)), e \in Optional({<< Newline >>}),
     b \in {<<"a", Backslash, Quote >>}, o \in OutputFormats}

\* Texts that are not JSON: the empty text, an object left open, a bare
\* word, a member without value, a trailing comma, a quote not escaped.
InvalidTexts ==
  {<< >>, <<"{">>, <<"a">>,
   <<"{", Quote, "a", Quote, "}">>,
   <<"{", Quote, "a", Quote, ":", Quote, Quote, ",", "}">>,
   <<"{", Quote, "a", Quote, ":", Quote, Quote, Quote, "}">>}

\* What the config file may be given outside the program: removed, a text
\* that is not JSON, the empty object.
EditedContents ==
  {None, Some(<<"{", "}">>)} \cup {Some(t) : t \in InvalidTexts}

\* Secrets handed to storeApiKeySecret.
Secrets == {<< >>, <<"b">>, <<"c">>}

\* ------------------------------------------------------------------------
\* State
\* ------------------------------------------------------------------------
VARIABLES
  env,              \* ASSAY_API_KEY
  envBaseUrl,       \* ASSAY_BASE_URL
  file,             \* the config file
  vault,            \* the keychain entry (service assay-cli, api-key-secret)
  keytarWorks,      \* whether the host's vault answers
  keytarAvailable,  \* keychain.ts: the cached availability flag of the process
  now,              \* Date.now()
  pc,               \* control point of the running command
  cmd,              \* the running command
  params,           \* list, search: the flags given and the filter parameter
  retryCount,       \* __retryCount of the request in flight
  attempts,         \* HTTP attempts sent for the current logical request
  lastSent,         \* the last attempt sent, with the state it was sent in
  n429,             \* 429 answers received for the current logical request
  outcome,          \* what the pipeline returned to the handler
  exitCode,         \* exit status of the process
  stdout,           \* lines written to standard output
  stderr,           \* lines written to standard error
  lastResolve,      \* the last getApiKey call: inputs and result
  lastCheck,        \* the last checkExpiration call: inputs and result
  lastWait,         \* the rate-limit wait the request resumes from
  prevWait,         \* the wait before the previous retry of the request
  lastAnswer,       \* the answer to the last HTTP attempt
  probeCount,       \* availability probes of the vault made by the process
  lastLogin,        \* the last login that succeeded on this host
  lastWrite,        \* config store: the last write of the config file
  lastLoad,         \* config store: the result of the last loadConfig call
  lastCall,         \* Secret Store adapter: the last call and its result
  pasted,           \* login: the pasted key
  parsed,           \* login: the result of parseApiKey
  testResult,       \* login: the result of testApiKey
  verifyCalls,      \* login: verification calls sent
  verifyAnswer,     \* login: the outcome of the verification call
  peer,             \* a second login process running at the same time
  loginKeys,        \* the keys of the logins that wrote the vault or the file
  startFile,        \* the config file when the process started
  startVault,       \* the keychain entry when the process started
  ncmds,            \* commands started
  nqueries          \* pipeline commands started

vars == << env, envBaseUrl, file, vault, keytarWorks, keytarAvailable, now,
           pc, cmd, params, retryCount, attempts, lastSent, n429, outcome,
           exitCode, stdout, stderr, lastResolve, lastCheck, lastWait,
           prevWait,
           lastAnswer, probeCount, lastLogin, lastWrite, lastLoad, lastCall,
           pasted, parsed, testResult, verifyCalls, verifyAnswer, peer,
           loginKeys, startFile, startVault, ncmds, nqueries >>

\* What only the start of a process changes.
frame == << env, envBaseUrl, keytarWorks, cmd, params, startFile, startVault,
            ncmds, nqueries >>
loginVars == << pasted, parsed, testResult, verifyCalls, verifyAnswer >>
pipeVars == << retryCount, attempts, lastSent, n429, lastResolve, lastCheck,
               lastWait, prevWait, lastAnswer >>
\* What only the calls made on the config store and on the Secret Store
\* adapter by themselves change.
unitVars == << lastWrite, lastLoad, lastCall >>

NoOutcome == [kind |-> "none"]

\* The second login process: its control point, the key pasted into it,
\* what parseApiKey and testApiKey returned, its cached availability of the
\* vault, the Config it loaded and its exit status.
NoPeer ==
  [pc |-> "none", key |-> None, parsed |-> None, expiresAt |-> None,
   cache |-> None, cfg |-> None, exitCode |-> None]

\* The state of a process before it has done anything.
FreshProcess ==
  /\ keytarAvailable' = None
  /\ retryCount' = 0
  /\ attempts' = 0
  /\ lastSent' = None
  /\ n429' = 0
  /\ outcome' = NoOutcome
  /\ exitCode' = None
  /\ stdout' = << >>
  /\ stderr' = << >>
  /\ lastResolve' = None
  /\ lastCheck' = None
  /\ lastWait' = None
  /\ prevWait' = None
  /\ lastAnswer' = None
  /\ probeCount' = 0
  /\ pasted' = None
  /\ parsed' = None
  /\ testResult' = None
  /\ verifyCalls' = 0
  /\ verifyAnswer' = None
  /\ startFile' = file
  /\ startVault' = vault

Init ==
  /\ env \in EnvValues
  /\ envBaseUrl \in EnvBaseUrls
  /\ file \in InitialFiles
  /\ keytarWorks \in BOOLEAN
  /\ vault \in IF keytarWorks THEN VaultValues ELSE {None}
  /\ keytarAvailable = None
  /\ now = StartTime
  /\ pc = "idle"
  /\ cmd = "none"
  /\ params = None
  /\ retryCount = 0
  /\ attempts = 0
  /\ lastSent = None
  /\ n429 = 0
  /\ outcome = NoOutcome
  /\ exitCode = None
  /\ stdout = << >>
  /\ stderr = << >>
  /\ lastResolve = None
  /\ lastCheck = None
  /\ lastWait = None
  /\ prevWait = None
  /\ lastAnswer = None
  /\ probeCount = 0
  /\ lastLogin = None
  /\ lastWrite = None
  /\ lastLoad = None
  /\ lastCall = None
  /\ pasted = None
  /\ parsed = None
  /\ testResult = None
  /\ verifyCalls = 0
  /\ verifyAnswer = None
  /\ peer = NoPeer
  /\ loginKeys = {}
  /\ startFile = file
  /\ startVault = vault
  /\ ncmds = 0
  /\ nqueries = 0

\* ------------------------------------------------------------------------
\* Process start, process exit and the handlers' catch blocks
\* ------------------------------------------------------------------------
Commands == {"login", "status", "rotate"} \cup QueryCommands
\* The commands that call the API through the request pipeline.
PipelineCommands == {"status"} \cup QueryCommands

\* index.ts: program.parse() dispatches to the handler of command c in a
\* new process, started once the previous one has exited; fl are the
\* filter flags on its command line.  The handlers of list and search
\* build params from the options before they call the API.
Start(c, fl) ==
  /\ pc \in {"idle", "exited"} /\ ncmds < MaxCommands
  /\ c \in PipelineCommands => nqueries < MaxQueries
  /\ c \notin FilterCommands => fl = NoFlags
  /\ FreshProcess
  /\ cmd' = c
  /\ params' = IF c \in FilterCommands
                THEN Some([flags |-> fl, filter |-> FilterParam(fl)])
                ELSE None
  /\ pc' = IF c \in QueryCommands THEN "request" ELSE c
  /\ ncmds' = ncmds + 1
  /\ nqueries' = IF c \in PipelineCommands THEN nqueries + 1 ELSE nqueries
  /\ UNCHANGED << peer, loginKeys,
                  env, envBaseUrl, keytarWorks, file, vault, now, lastLogin,
                  unitVars >>

\* The process ends with status code after writing out and err.
Exit(code, res, out, err) ==
  /\ pc' = "exited"
  /\ exitCode' = Some(code)
  /\ outcome' = res
  /\ stdout' = stdout \o out
  /\ stderr' = stderr \o err

\* The process goes on to control point p after writing out and err.
Goto(p, out, err) ==
  /\ pc' = p
  /\ stdout' = stdout \o out
  /\ stderr' = stderr \o err
  /\ UNCHANGED << exitCode, outcome >>

LocalError(name) ==
  [kind |-> "error", source |-> "local", name |-> name,
   answer |-> [hasBody |-> FALSE], attempt |-> 0]
AxiosError(answer, attempt) ==
  [kind |-> "error", source |-> "axios", name |-> "AxiosError",
   answer |-> answer, attempt |-> attempt]
Response(answer, attempt) ==
  [kind |-> "response", source |-> "axios", name |-> "response",
   answer |-> answer, attempt |-> attempt]
Completed == [kind |-> "completed"]

\* catch block of a pipeline command: printError, process.exit(1).  The
\* search command first dumps the body of an error response.
HandlerCatch(err) ==
  Exit(1, err, << >>,
       IF cmd = "search" /\ err.source = "axios" /\ err.answer.hasBody
       THEN <<"response_dump", "error">> ELSE <<"error">>)

\* ------------------------------------------------------------------------
\* Request pipeline (createApiClient, src/src/utils/apiClient.ts)
\* ------------------------------------------------------------------------
\* What getApiKey returned and did, without the cache it hands on.
ResolveRecord(r) ==
  [env |-> env, file |-> file, vault |-> vault,
   key |-> r.key, threw |-> r.threw, cfgReads |-> r.cfgReads,
   probes |-> r.probes, reads |-> r.reads, secret |-> r.secret]

\* Request interceptor: resolve the credential, refuse without one, refuse
\* an expired one, warn about one expiring soon, attach X-API-Key and hand
\* the request to the network.  A refusal rejects client.get, which the
\* handler's catch block reports.
RequestInterceptor ==
  /\ pc = "request"
  /\ \E readFails \in BOOLEAN :
       LET r == GetApiKey(env, file, vault, keytarWorks, keytarAvailable, readFails)
           lc == LoadConfig(file)
           chk == CheckExpiration(lc.cfg.apiKeyExpiresAt, now)
       IN /\ lastResolve' = Some(ResolveRecord(r))
          /\ keytarAvailable' = r.cache
          /\ probeCount' = probeCount + r.probes
          /\ lastWait' = None
          /\ IF r.threw
             THEN /\ HandlerCatch(LocalError("ConfigParseError"))
                  /\ UNCHANGED << lastCheck, attempts, lastSent >>
             ELSE IF ~Truthy(r.key)
             THEN /\ HandlerCatch(LocalError("NoCredential"))
                  /\ UNCHANGED << lastCheck, attempts, lastSent >>
             ELSE IF lc.threw
             THEN /\ HandlerCatch(LocalError("ConfigParseError"))
                  /\ UNCHANGED << lastCheck, attempts, lastSent >>
             ELSE /\ lastCheck' = Some([expiresAt |-> lc.cfg.apiKeyExpiresAt,
                                        now |-> now, res |-> chk])
                  /\ IF chk.expired
                     THEN /\ HandlerCatch(LocalError("CredentialExpired"))
                          /\ UNCHANGED << attempts, lastSent >>
                     ELSE /\ Goto("inflight", << >>,
                                  IF chk.expiringSoon /\ chk.message # "none"
                                  THEN <<"warn_expiring">> ELSE << >>)
                          /\ attempts' = attempts + 1
                          /\ lastSent' = Some([hdr |-> r.key[1], env |-> env,
                                               file |-> file, vault |-> vault,
                                               now |-> now, params |-> params,
                                               baseURL |-> BaseURL(envBaseUrl)])
  /\ lastAnswer' = None
  /\ UNCHANGED << peer, loginKeys,
                  frame, file, vault, now, retryCount, n429, prevWait,
                  lastLogin, unitVars, loginVars >>

\* Mutant of SuccessInterceptor: the Config with the new expiration saved.
SuccessInterceptor_Saved(f, a) ==
  IF a.expires = None \/ a.expires[1].tag = "empty"
  THEN [threw |-> FALSE, cfg |-> None, file |-> f]
  ELSE IF LoadConfig(f).threw
  THEN [threw |-> TRUE, cfg |-> None, file |-> f]
  ELSE LET config ==
             [LoadConfig(f).cfg EXCEPT !.apiKeyExpiresAt = a.expires]
       IN [threw |-> FALSE, cfg |-> Some(config), file |-> JsonFile(config)]

\* The success interceptor on answer a with config file f: when the answer
\* carries X-Api-Key-Expires-At it loads the Config and assigns the header
\* to the apiKeyExpiresAt of that copy, which it then drops; saveConfig is
\* not called.  cfg is the copy, file the config file afterwards.
SuccessInterceptor(f, a) ==
  IF a.expires = None \/ a.expires[1].tag = "empty"
  THEN [threw |-> FALSE, cfg |-> None, file |-> f]
  ELSE IF LoadConfig(f).threw
  THEN [threw |-> TRUE, cfg |-> None, file |-> f]
  ELSE LET config ==
             [LoadConfig(f).cfg EXCEPT !.apiKeyExpiresAt = a.expires]
       IN [threw |-> FALSE, cfg |-> Some(config), file |-> f]

\* Response interceptors and the handler's continuation, for the answer a
\* of the server to the attempt in flight.  A success is printed by the
\* handler.  A 429 with retries left warns, sleeps waitMs and re-enters
\* client.request; d is the time between the two readings of the clock
\* (there is one reading only unless the fallback is taken).
\* Every other error is rejected to the handler's catch block.
ResponseInterceptor(a, d) ==
  /\ pc = "inflight"
  /\ d # 0 => a.status = 429 /\ ~Truthy(a.reset) /\ CanRetry(retryCount)
  /\ n429' = IF a.status = 429 THEN n429 + 1 ELSE n429
  /\ lastAnswer' = Some(a)
  /\ IF a.type = "http" /\ a.status = 200
     THEN /\ file' = SuccessInterceptor(file, a).file
          /\ IF SuccessInterceptor(file, a).threw
             THEN HandlerCatch(LocalError("ConfigParseError"))
             ELSE Exit(0, Response(a, attempts), <<"result">>, << >>)
          /\ UNCHANGED << retryCount, now, lastWait, prevWait >>
     ELSE IF IsRateLimited(a) /\ CanRetry(retryCount)
     THEN LET w == WaitMs(a.reset, now, now + d)
          IN /\ UNCHANGED file
             /\ retryCount' = retryCount + 1
             /\ lastWait' = Some([reset |-> a.reset, waitMs |-> w,
                                  slept |-> Sleep(w), previous |-> prevWait])
             /\ prevWait' = Some(Sleep(w))
             /\ now' = now + d + Sleep(w)
             /\ Goto("request", << >>, <<"warn_ratelimit">>)
     ELSE /\ HandlerCatch(AxiosError(a, attempts))
          /\ UNCHANGED << file, retryCount, now, lastWait, prevWait >>
  /\ UNCHANGED << peer, loginKeys,
                  frame, vault, keytarAvailable, probeCount, attempts,
                  lastSent, lastResolve, lastCheck, lastLogin, unitVars,
                  loginVars >>

\* ------------------------------------------------------------------------
\* auth status, auth rotate (src/src/commands/auth.ts)
\* ------------------------------------------------------------------------
\* auth status, up to client.get('/api/v1/me'): refuses when loadConfig
\* throws or the Config holds no key identifier.
Status ==
  /\ pc = "status"
  /\ LET lc == LoadConfig(file)
     IN IF lc.threw
        THEN Exit(1, LocalError("ConfigParseError"), << >>, <<"error">>)
        ELSE IF ~Truthy(lc.cfg.keyId)
        THEN Exit(1, LocalError("NoCredential"), << >>, <<"error">>)
        ELSE Goto("request", << >>, << >>)
  /\ UNCHANGED << peer, loginKeys,
                  frame, file, vault, keytarAvailable, probeCount, now,
                  pipeVars, lastLogin, unitVars, loginVars >>

\* auth rotate: opens the dashboard; openFails is whether open() throws.
Rotate ==
  /\ pc = "rotate"
  /\ \E openFails \in BOOLEAN :
       IF openFails
       THEN Exit(1, LocalError("OpenFailed"), <<"info">>, <<"error">>)
       ELSE Exit(0, Completed, <<"info", "info">>, << >>)
  /\ UNCHANGED << peer, loginKeys,
                  frame, file, vault, keytarAvailable, probeCount, now,
                  pipeVars, lastLogin, unitVars, loginVars >>

\* ------------------------------------------------------------------------
\* auth login (src/src/commands/auth.ts)
\* ------------------------------------------------------------------------
\* Opens the dashboard and shows the prompt.
Login ==
  /\ pc = "login"
  /\ \E openFails \in BOOLEAN :
       IF openFails
       THEN Exit(1, LocalError("OpenFailed"), <<"info">>, <<"error">>)
       ELSE Goto("prompt", <<"info">>, << >>)
  /\ UNCHANGED << peer, loginKeys,
                  frame, file, vault, keytarAvailable, probeCount, now,
                  pipeVars, lastLogin, unitVars, loginVars >>

\* The user submits k at the prompt.  The prompt asks again when validate
\* rejects k.  Otherwise parseApiKey decides: a key it rejects ends the
\* command, a key it accepts is sent in the verification call.
LoginPrompt(k) ==
  /\ pc = "prompt"
  /\ pasted' = Some(k)
  /\ IF ~ValidateInput(k)
     THEN /\ Goto("prompt", << >>, << >>)
          /\ UNCHANGED << parsed, verifyCalls >>
     ELSE LET p == ParseApiKey(k)
          IN IF p = None
             THEN /\ Exit(1, LocalError("InvalidKeyFormat"), << >>, <<"error">>)
                  /\ UNCHANGED << parsed, verifyCalls >>
             ELSE /\ parsed' = p
                  /\ verifyCalls' = verifyCalls + 1
                  /\ Goto("verifying", <<"info">>, << >>)
  /\ UNCHANGED << peer, loginKeys,
                  frame, file, vault, keytarAvailable, probeCount, now,
                  pipeVars, lastLogin, unitVars, testResult, verifyAnswer >>

\* The verification call returns r: testApiKey; a key that is not
\* confirmed ends the command, else isKeychainAvailable() probes the vault.
LoginVerify(r) ==
  /\ pc = "verifying"
  /\ LET t == TestApiKey(r)
     IN /\ testResult' = Some(t)
        /\ verifyAnswer' = Some(r)
        /\ IF ~t.valid
           THEN /\ Exit(1, LocalError("ValidationFailed"), << >>, <<"error">>)
                /\ UNCHANGED << keytarAvailable, probeCount >>
           ELSE LET a == IsKeychainAvailable(keytarWorks, keytarAvailable)
                IN /\ keytarAvailable' = a.cache
                   /\ probeCount' = probeCount + a.probes
                   /\ Goto("storing", << >>, << >>)
  /\ UNCHANGED << peer, loginKeys,
                  frame, file, vault, now, pipeVars, lastLogin, unitVars,
                  pasted, parsed, verifyCalls >>

\* storeApiKeySecret(parsed.keySecret) when isKeychainAvailable() returned
\* true, two warnings when it returned false; an error thrown by
\* storeApiKeySecret is reported by the handler's catch block.
LoginStore ==
  /\ pc = "storing"
  /\ IF keytarAvailable = Some(TRUE)
     THEN \E writeFails \in BOOLEAN :
            LET r == StoreApiKeySecret(parsed[1].keySecret, vault, keytarWorks,
                                       keytarAvailable, writeFails)
            IN /\ keytarAvailable' = r.cache
               /\ probeCount' = probeCount + r.probes
               /\ vault' = r.vault
               /\ IF r.error # "none"
                  THEN /\ Exit(1, LocalError(r.error), << >>, <<"error">>)
                       /\ UNCHANGED loginKeys
                  ELSE /\ Goto("saving", <<"info">>, << >>)
                       /\ loginKeys' = loginKeys \cup {parsed[1]}
     ELSE /\ UNCHANGED << vault, keytarAvailable, probeCount, loginKeys >>
          /\ Goto("saving", << >>, <<"warning", "warning">>)
  /\ UNCHANGED << peer,
                  frame, file, now, pipeVars, lastLogin, unitVars, loginVars >>

\* The Config login saves: the loaded Config config with keyId,
\* apiKeyExpiresAt and baseUrl assigned.
LoginConfig(config, keyId, expiresAt) ==
  Config(Some(keyId), expiresAt, DefaultBaseUrl, config.outputFormat)

\* loadConfig, set keyId, apiKeyExpiresAt and baseUrl, saveConfig;
\* writeFails is whether writing the file throws.
LoginSave ==
  /\ pc = "saving"
  /\ LET lc == LoadConfig(file)
         keychainAvailable == keytarAvailable = Some(TRUE)
     IN IF lc.threw
        THEN /\ Exit(1, LocalError("ConfigParseError"), << >>, <<"error">>)
             /\ UNCHANGED << file, lastLogin, loginKeys >>
        ELSE \E writeFails \in BOOLEAN :
               IF writeFails
               THEN /\ Exit(1, LocalError("ConfigWriteError"), << >>, <<"error">>)
                    /\ UNCHANGED << file, lastLogin, loginKeys >>
               ELSE /\ file' = JsonFile(LoginConfig(lc.cfg, parsed[1].keyId,
                                                    testResult[1].expiresAt))
                    /\ loginKeys' = loginKeys \cup {parsed[1]}
                    /\ lastLogin' = Some([key |-> pasted[1],
                                          keychain |-> keychainAvailable])
                    /\ Exit(0, Completed, <<"success">>,
                            IF keychainAvailable THEN << >> ELSE <<"warning">>)
  /\ UNCHANGED << peer,
                  frame, vault, keytarAvailable, probeCount, now, pipeVars,
                  unitVars, loginVars >>

\* ------------------------------------------------------------------------
\* A second auth login at the same time (src/src/commands/auth.ts)
\* ------------------------------------------------------------------------
\* The handler of auth login run by another process on the same config
\* path and the same vault.  The two processes share file and vault and
\* nothing else; nothing in the handler locks either.
PeerVars ==
  << env, envBaseUrl, keytarWorks, keytarAvailable, now, pc, cmd, params,
     outcome, exitCode, stdout, stderr, probeCount, pipeVars, unitVars,
     loginVars, startFile, startVault, ncmds, nqueries >>

PeerExit(code) == [peer EXCEPT !.pc = "exited", !.exitCode = Some(code)]

\* Up to isKeychainAvailable(): the user of the second process submits k,
\* parseApiKey, then the verification call returns r and testApiKey
\* decides.  None of it reads or writes the file or the vault.
PeerLogin(k, r) ==
  /\ peer.pc = "none"
  /\ cmd = "login" /\ pc \notin {"idle", "exited"}
  /\ ValidateInput(k)
  /\ peer' =
       IF ParseApiKey(k) = None \/ ~TestApiKey(r).valid THEN PeerExit(1)
       ELSE [peer EXCEPT
               !.pc = "storing", !.key = Some(k), !.parsed = ParseApiKey(k),
               !.expiresAt = TestApiKey(r).expiresAt,
               !.cache = IsKeychainAvailable(keytarWorks, None).cache]
  /\ UNCHANGED << PeerVars, file, vault, lastLogin, loginKeys >>

\* storeApiKeySecret(parsed.keySecret) in the second process.
PeerStore ==
  /\ peer.pc = "storing"
  /\ IF peer.cache = Some(TRUE)
     THEN \E writeFails \in BOOLEAN :
            LET r == StoreApiKeySecret(peer.parsed[1].keySecret, vault,
                                       keytarWorks, peer.cache, writeFails)
            IN /\ vault' = r.vault
               /\ IF r.error # "none"
                  THEN /\ peer' = PeerExit(1)
                       /\ UNCHANGED loginKeys
                  ELSE /\ peer' = [peer EXCEPT !.pc = "loading"]
                       /\ loginKeys' = loginKeys \cup {peer.parsed[1]}
     ELSE /\ peer' = [peer EXCEPT !.pc = "loading"]
          /\ UNCHANGED << vault, loginKeys >>
  /\ UNCHANGED << PeerVars, file, lastLogin >>

\* loadConfig() in the second process.
PeerLoad ==
  /\ peer.pc = "loading"
  /\ peer' = IF LoadConfig(file).threw THEN PeerExit(1)
             ELSE [peer EXCEPT !.pc = "saving",
                               !.cfg = Some(LoadConfig(file).cfg)]
  /\ UNCHANGED << PeerVars, file, vault, lastLogin, loginKeys >>

\* saveConfig(config) in the second process, config being what it loaded
\* with keyId, apiKeyExpiresAt and baseUrl assigned.
PeerSave ==
  /\ peer.pc = "saving"
  /\ \E writeFails \in BOOLEAN :
       IF writeFails
       THEN /\ peer' = PeerExit(1)
            /\ UNCHANGED << file, lastLogin, loginKeys >>
       ELSE /\ file' = JsonFile(LoginConfig(peer.cfg[1], peer.parsed[1].keyId,
                                            peer.expiresAt))
            /\ loginKeys' = loginKeys \cup {peer.parsed[1]}
            /\ lastLogin' = Some([key |-> peer.key[1],
                                  keychain |-> peer.cache = Some(TRUE)])
            /\ peer' = PeerExit(0)
  /\ UNCHANGED << PeerVars, vault >>

\* ------------------------------------------------------------------------
\* The config store by itself (saveConfig, loadConfig)
\* ------------------------------------------------------------------------
\* The last write of the config file: by saveConfig ("save", with whether
\* the call threw) or outside the program ("edit"), and when something was
\* written the Config handed to saveConfig and the content written.
WriteRecord(by, cfg, threw, content) ==
  [by |-> by, cfg |-> cfg, threw |-> threw, content |-> content]

\* saveConfig(cfg): the text of cfg written to the config file; writeFails
\* is whether mkdirSync or writeFileSync throws.
SaveConfigCall(cfg) ==
  /\ pc = "idle"
  /\ \E writeFails \in BOOLEAN :
       LET text == JSONStringify(cfg)
       IN IF writeFails
          THEN /\ file' = file
               /\ lastWrite' = Some(WriteRecord("save", DefaultConfig, TRUE, None))
          ELSE /\ file' = FileOf(Some(text))
               /\ lastWrite' = Some(WriteRecord("save", cfg, FALSE, Some(text)))
  /\ lastLoad' = None
  /\ UNCHANGED << peer, loginKeys,
                  frame, vault, keytarAvailable, probeCount, now, pc, outcome,
                  exitCode, stdout, stderr, pipeVars, lastLogin, lastCall,
                  loginVars >>

\* loadConfig()
LoadConfigCall ==
  /\ pc = "idle"
  /\ lastLoad' = Some(LoadConfig(file))
  /\ UNCHANGED << peer, loginKeys,
                  frame, file, vault, keytarAvailable, probeCount, now, pc,
                  outcome, exitCode, stdout, stderr, pipeVars, lastLogin,
                  lastWrite, lastCall, loginVars >>

\* The user removes the config file or gives it the content c.
ConfigFileEdited(c) ==
  /\ pc = "idle"
  /\ file' = FileOf(c)
  /\ lastWrite' = Some(WriteRecord("edit", DefaultConfig, FALSE, c))
  /\ lastLoad' = None
  /\ UNCHANGED << peer, loginKeys,
                  frame, vault, keytarAvailable, probeCount, now, pc, outcome,
                  exitCode, stdout, stderr, pipeVars, lastLogin, lastCall,
                  loginVars >>

\* ------------------------------------------------------------------------
\* The Secret Store adapter by itself (src/src/utils/keychain.ts)
\* ------------------------------------------------------------------------
\* A call of the adapter: the function called, the cached flag before the
\* call, the vault entry before the call, and what the call did.
CallRecord(op, r) ==
  [op |-> op, cachedBefore |-> keytarAvailable, held |-> vault,
   error |-> r.error, secret |-> r.secret, available |-> r.available,
   probes |-> r.probes]

\* Whether a call of keytar throws: it may at any time, and does while the
\* vault does not answer.
Failures == IF keytarWorks THEN BOOLEAN ELSE {TRUE}

AdapterCall(op, r) ==
  /\ pc = "idle"
  /\ keytarAvailable' = r.cache
  /\ probeCount' = probeCount + r.probes
  /\ vault' = r.vault
  /\ lastCall' = Some(CallRecord(op, r))
  /\ UNCHANGED << peer, loginKeys,
                  frame, file, now, pc, outcome, exitCode, stdout, stderr,
                  pipeVars, lastLogin, lastWrite, lastLoad, loginVars >>

\* isKeychainAvailable()
Probe ==
  AdapterCall("probe",
              AdapterResult("none", None, vault,
                            IsKeychainAvailable(keytarWorks, keytarAvailable), 0))

\* storeApiKeySecret(s)
Store(s) ==
  \E fails \in Failures :
    AdapterCall("store",
                StoreApiKeySecret(s, vault, keytarWorks, keytarAvailable, fails))

\* getApiKeySecret()
Retrieve ==
  \E fails \in Failures :
    AdapterCall("retrieve",
                GetApiKeySecret(vault, keytarWorks, keytarAvailable, fails))

\* deleteApiKeySecret()
Delete ==
  \E fails \in Failures :
    AdapterCall("delete",
                DeleteApiKeySecret(vault, keytarWorks, keytarAvailable, fails))

\* The vault of the host stops or starts answering (the keychain is locked
\* or unlocked, the secret service stops or starts).
VaultChanges ==
  /\ pc = "idle"
  /\ keytarWorks' = ~keytarWorks
  /\ UNCHANGED << peer, loginKeys,
                  env, envBaseUrl, cmd, params, startFile, startVault, ncmds,
                  nqueries, file, vault, keytarAvailable, probeCount, now, pc,
                  outcome, exitCode, stdout, stderr, pipeVars, lastLogin,
                  unitVars, loginVars >>

\* ------------------------------------------------------------------------
\* Specification
\* ------------------------------------------------------------------------
Next ==
  \/ \E c \in Commands, fl \in Flags : Start(c, fl)
  \/ RequestInterceptor
  \/ \E a \in Answers, d \in Drifts : ResponseInterceptor(a, d)
  \/ Status
  \/ Rotate
  \/ Login
  \/ \E k \in PastedKeys : LoginPrompt(k)
  \/ \E r \in VerifyAnswers : LoginVerify(r)
  \/ LoginStore
  \/ LoginSave

Spec == Init /\ [][Next]_vars

\* The request pipeline alone: the commands that call the API, without
\* filter flags.
NextPipeline ==
  \/ \E c \in PipelineCommands : Start(c, NoFlags)
  \/ Status
  \/ RequestInterceptor
  \/ \E a \in Answers, d \in Drifts : ResponseInterceptor(a, d)

SpecPipeline == Init /\ [][NextPipeline]_vars

\* The login command alone.
NextLogin ==
  \/ Start("login", NoFlags)
  \/ Login
  \/ \E k \in PastedKeys : LoginPrompt(k)
  \/ \E r \in VerifyAnswers : LoginVerify(r)
  \/ LoginStore
  \/ LoginSave

SpecLogin == Init /\ [][NextLogin]_vars

\* Login and the commands that call the API, without filter flags, on a
\* host where ASSAY_BASE_URL is unset.
InitSession == Init /\ envBaseUrl = None

NextSession ==
  \/ \E c \in {"login"} \cup PipelineCommands : Start(c, NoFlags)
  \/ Login
  \/ \E k \in PastedKeys : LoginPrompt(k)
  \/ \E r \in VerifyAnswers : LoginVerify(r)
  \/ LoginStore
  \/ LoginSave
  \/ Status
  \/ RequestInterceptor
  \/ \E a \in Answers, d \in Drifts : ResponseInterceptor(a, d)

SpecSession == InitSession /\ [][NextSession]_vars

\* Two login processes at the same time on one config path and one vault.
InitTwoLogins == Init /\ env = None /\ envBaseUrl = None

NextTwoLogins ==
  \/ Start("login", NoFlags)
  \/ Login
  \/ \E k \in PastedKeys : LoginPrompt(k)
  \/ \E r \in VerifyAnswers : LoginVerify(r)
  \/ LoginStore
  \/ LoginSave
  \/ \E k \in PeerKeys, r \in PeerVerifyAnswers : PeerLogin(k, r)
  \/ PeerStore
  \/ PeerLoad
  \/ PeerSave

SpecTwoLogins == InitTwoLogins /\ [][NextTwoLogins]_vars

\* documents list and documents search with their filter flags.
NextFilter ==
  \/ \E c \in FilterCommands, fl \in Flags : Start(c, fl)
  \/ RequestInterceptor
  \/ \E a \in Answers, d \in Drifts : ResponseInterceptor(a, d)

SpecFilter == Init /\ [][NextFilter]_vars

\* Every command but login, without filter flags.
NextOtherCommands ==
  \/ \E c \in Commands \ {"login"} : Start(c, NoFlags)
  \/ Status
  \/ Rotate
  \/ RequestInterceptor
  \/ \E a \in Answers, d \in Drifts : ResponseInterceptor(a, d)

SpecOtherCommands == Init /\ [][NextOtherCommands]_vars

\* The config store alone: saveConfig and loadConfig called in any order
\* on a config file that may also be edited or removed.
InitConfigStore ==
  Init /\ env = None /\ envBaseUrl = None /\ ~keytarWorks /\ file = AbsentFile

NextConfigStore ==
  \/ \E cfg \in SavedConfigs : SaveConfigCall(cfg)
  \/ LoadConfigCall
  \/ \E c \in EditedContents : ConfigFileEdited(c)

SpecConfigStore == InitConfigStore /\ [][NextConfigStore]_vars

\* The Secret Store adapter alone: its functions called in any order by
\* one process, on a vault that may stop and start answering.
InitKeychain == Init /\ env = None /\ envBaseUrl = None /\ file = AbsentFile

NextKeychain ==
  \/ Probe
  \/ \E s \in Secrets : Store(s)
  \/ Retrieve
  \/ Delete
  \/ VaultChanges

SpecKeychain == InitKeychain /\ [][NextKeychain]_vars

\* ------------------------------------------------------------------------
\* Properties
\* ------------------------------------------------------------------------
\* Number of occurrences of character c in string str.
RECURSIVE CountChar(_, _)
CountChar(str, c) ==
  IF Len(str) = 0 THEN 0
  ELSE (IF Head(str) = c THEN 1 ELSE 0) + CountChar(Tail(str), c)

\* The credentials the host holds: the environment variable's value and
\* the key recomposed from the stored identifier and the stored secret.
CredentialsHeld(e, f, v) ==
  (IF e # None THEN {e[1]} ELSE {})
    \cup (IF f.kind = "json" /\ f.cfg.keyId # None /\ v # None
          THEN {Prefix \o f.cfg.keyId[1] \o <<"_">> \o v[1]} ELSE {})

\* The expiration stored in config file f is an instant not after t.
StoredExpirationPast(f, t) ==
  /\ f.kind = "json"
  /\ f.cfg.apiKeyExpiresAt # None
  /\ f.cfg.apiKeyExpiresAt[1].tag = "iso"
  /\ f.cfg.apiKeyExpiresAt[1].ms <= t

\* C1: a logical request whose first k attempts are answered 429 and whose
\* next attempt succeeds (k <= 3) has made exactly k+1 attempts and returns
\* that success; after four 429 answers it has made exactly 4 attempts, and
\* the error of the fourth is what it returns; there is never a 5th attempt.
C1_RetryBound ==
  /\ attempts <= 4
  /\ (pc = "exited" /\ outcome.kind = "response") =>
       /\ n429 <= 3
       /\ attempts = n429 + 1
       /\ outcome.attempt = attempts
       /\ outcome.answer.status = 200
  /\ n429 >= 4 =>
       /\ n429 = 4
       /\ attempts = 4
       /\ pc = "exited"
       /\ outcome.kind = "error" /\ outcome.source = "axios"
       /\ outcome.attempt = 4
       /\ outcome.answer.status = 429
       /\ exitCode = Some(1)

\* Three 429 answers followed by a success.
C1_Witness ==
  pc = "exited" /\ n429 = 3 /\ outcome.kind = "response" /\ attempts = 4

\* C2: every HTTP attempt sent (first attempt or retry) was sent in a state
\* where a credential was held and resolved and the expiration stored in
\* Config was not past, and carries that credential in X-API-Key; in a
\* state with no credential or a past stored expiration the request
\* interceptor sends nothing and the command fails.
C2_SentOnlyWithLiveCredential ==
  /\ [](attempts > 0 =>
          /\ lastSent # None
          /\ lastSent[1].hdr # << >>
          /\ lastSent[1].hdr \in
               CredentialsHeld(lastSent[1].env, lastSent[1].file, lastSent[1].vault)
          /\ ~StoredExpirationPast(lastSent[1].file, lastSent[1].now))
  /\ [][(pc = "request"
           /\ (CredentialsHeld(env, file, vault) \subseteq {<< >>}
                 \/ StoredExpirationPast(file, now)))
          => (attempts' = attempts /\ lastSent' = lastSent
                /\ pc' = "exited" /\ exitCode' = Some(1)
                /\ outcome'.source = "local")]_vars

\* A retry has been sent with the credential recomposed from Config and
\* the Secret Store, the stored expiration being a future instant.
C2_Witness ==
  /\ pc = "inflight" /\ attempts >= 2 /\ env = None
  /\ file.kind = "json" /\ file.cfg.apiKeyExpiresAt # None
  /\ file.cfg.apiKeyExpiresAt[1].tag = "iso"

\* C3: the wait before every rate-limit retry is at least 1 second and at
\* most 60 seconds, whatever the X-RateLimit-Reset header holds, and also
\* when it is absent.
C3_WaitClamped ==
  lastWait # None =>
    /\ lastWait[1].slept >= 1000
    /\ lastWait[1].slept <= 60000

\* C4 as stated: whenever ASSAY_API_KEY is set, getApiKey returns exactly
\* its value and reads neither Config nor the Secret Store.
C4_EnvSetWins ==
  (lastResolve # None /\ lastResolve[1].env # None) =>
    /\ lastResolve[1].key = lastResolve[1].env
    /\ ~lastResolve[1].threw
    /\ lastResolve[1].cfgReads = 0
    /\ lastResolve[1].probes = 0
    /\ lastResolve[1].reads = 0

\* C4 amended: whenever ASSAY_API_KEY is set to a non-empty value,
\* getApiKey returns exactly that value, for every state of Config and of
\* the Secret Store, and reads neither.
C4_NonEmptyEnvWins ==
  (lastResolve # None /\ lastResolve[1].env # None
     /\ lastResolve[1].env[1] # << >>) =>
    /\ lastResolve[1].key = lastResolve[1].env
    /\ ~lastResolve[1].threw
    /\ lastResolve[1].cfgReads = 0
    /\ lastResolve[1].probes = 0
    /\ lastResolve[1].reads = 0

\* getApiKey has returned the environment variable's value on a host whose
\* config file does not parse.
C4_Witness ==
  /\ lastResolve # None
  /\ lastResolve[1].env = Some(EnvKey)
  /\ lastResolve[1].file.kind = "garbage"
  /\ lastResolve[1].key = Some(EnvKey)

\* C5: with ASSAY_API_KEY set (to a non-empty value), no authenticated
\* command is refused locally: when it ends it has sent its request with
\* that key, whatever Config and the Secret Store hold.
C5_EnvNeverRefused ==
  (pc = "exited" /\ cmd \in PipelineCommands
     /\ env # None /\ env[1] # << >>) =>
    /\ outcome.kind \in {"response", "error"}
    /\ outcome.source # "local"
    /\ attempts >= 1
    /\ lastSent # None /\ lastSent[1].hdr = env[1]

\* C6: checkExpiration returns false/false without message for an absent
\* timestamp, expired (only) with the remediation message when
\* now >= expiresAt, expiringSoon (only) with the warning when expiresAt is
\* less than 30 minutes after now, false/false when it is 30 minutes or
\* more after now; the two flags are never both true.
C6_CheckExpiration ==
  lastCheck # None =>
    LET x == lastCheck[1].expiresAt
        t == lastCheck[1].now
        r == lastCheck[1].res
    IN /\ ~(r.expired /\ r.expiringSoon)
       /\ x = None =>
            ~r.expired /\ ~r.expiringSoon /\ r.message = "none"
       /\ (x # None /\ x[1].tag = "iso" /\ t >= x[1].ms) =>
            r.expired /\ ~r.expiringSoon /\ r.message = "expired"
       /\ (x # None /\ x[1].tag = "iso" /\ x[1].ms > t
             /\ x[1].ms - t < 1800000) =>
            ~r.expired /\ r.expiringSoon /\ r.message = "warning"
       /\ (x # None /\ x[1].tag = "iso" /\ x[1].ms - t >= 1800000) =>
            ~r.expired /\ ~r.expiringSoon

\* checkExpiration has been applied to a timestamp one millisecond less
\* than 30 minutes ahead.
C6_Witness ==
  /\ lastCheck # None
  /\ lastCheck[1].expiresAt # None
  /\ lastCheck[1].expiresAt[1].tag = "iso"
  /\ lastCheck[1].expiresAt[1].ms - lastCheck[1].now = 1800000 - 1
  /\ lastCheck[1].res.expiringSoon

\* The Config that the config file f holds has no key identifier.
KeyIdUnset(f) ==
  f.kind = "absent" \/ (f.kind = "json" /\ f.cfg.keyId = None)

\* C7: with ASSAY_API_KEY unset and a Config without key identifier,
\* getApiKey returns null without any access to the Secret Store: no
\* availability probe, no read.
C7_NoKeyIdNoStoreAccess ==
  (lastResolve # None /\ lastResolve[1].env = None
     /\ KeyIdUnset(lastResolve[1].file)) =>
    /\ lastResolve[1].key = None
    /\ ~lastResolve[1].threw
    /\ lastResolve[1].probes = 0
    /\ lastResolve[1].reads = 0
    /\ keytarAvailable = None

\* getApiKey has returned on a host whose Config has no key identifier
\* while the vault is available and holds a secret.
C7_Witness ==
  /\ lastResolve # None /\ lastResolve[1].env = None
  /\ lastResolve[1].file.kind = "json"
  /\ lastResolve[1].file.cfg.keyId = None
  /\ keytarWorks /\ vault = Some(<<"b">>)

\* What the Secret Store adapter returns on this host: what it returned
\* when getApiKey asked, else what the vault holds when it answers.
SecretReturned(r) ==
  IF r.reads = 1 THEN r.secret
  ELSE IF keytarWorks THEN r.vault ELSE None

\* C8 as stated: with ASSAY_API_KEY unset and a key identifier K in
\* Config, getApiKey returns "ask_live_" + K + "_" + S when the Secret
\* Store returns a secret S, and null when it returns none.
C8_Recomposed ==
  (lastResolve # None /\ lastResolve[1].env = None
     /\ lastResolve[1].file.kind = "json"
     /\ lastResolve[1].file.cfg.keyId # None) =>
    LET r == lastResolve[1]
        s == SecretReturned(r)
    IN IF s # None
       THEN r.key = Some(<<"a", "s", "k", "_", "l", "i", "v", "e", "_">>
                           \o r.file.cfg.keyId[1] \o <<"_">> \o s[1])
       ELSE r.key = None

\* C8 amended: with ASSAY_API_KEY unset and a non-empty key identifier K
\* in Config, getApiKey returns "ask_live_" + K + "_" + S when the Secret
\* Store returns a non-empty secret S, and null when it returns no secret
\* or an empty one.
C8_RecomposedNonEmpty ==
  (lastResolve # None /\ lastResolve[1].env = None
     /\ lastResolve[1].file.kind = "json"
     /\ lastResolve[1].file.cfg.keyId # None
     /\ lastResolve[1].file.cfg.keyId[1] # << >>) =>
    LET r == lastResolve[1]
        s == SecretReturned(r)
    IN IF s # None /\ s[1] # << >>
       THEN r.key = Some(<<"a", "s", "k", "_", "l", "i", "v", "e", "_">>
                           \o r.file.cfg.keyId[1] \o <<"_">> \o s[1])
       ELSE r.key = None

\* getApiKey has recomposed "ask_live_a_b" from the key identifier "a" and
\* the secret "b".
C8_Witness ==
  /\ lastResolve # None /\ lastResolve[1].env = None
  /\ lastResolve[1].file.kind = "json"
  /\ lastResolve[1].file.cfg.keyId = Some(<<"a">>)
  /\ lastResolve[1].secret = Some(<<"b">>)
  /\ lastResolve[1].key =
       Some(<<"a", "s", "k", "_", "l", "i", "v", "e", "_", "a", "_", "b">>)

\* The pasted key k does not start with "ask_live_" or has fewer than two
\* underscore-delimited segments after it.
Malformed(k) ==
  \/ Len(k) < 9
  \/ SubSeq(k, 1, 9) # <<"a", "s", "k", "_", "l", "i", "v", "e", "_">>
  \/ CountChar(SubSeq(k, 10, Len(k)), "_") + 1 < 2

\* C9: login rejects every malformed pasted key before the verification
\* call is made and without writing Config or the Secret Store.
C9_MalformedRejected ==
  (cmd = "login" /\ pasted # None /\ Malformed(pasted[1])) =>
    /\ pc \in {"prompt", "exited"}
    /\ pc = "exited" => exitCode = Some(1)
    /\ verifyCalls = 0
    /\ verifyAnswer = None
    /\ file = startFile
    /\ vault = startVault

\* Login has ended on the pasted key "ask_live_a".
C9_Witness ==
  /\ cmd = "login" /\ pc = "exited" /\ exitCode = Some(1)
  /\ pasted = Some(<<"a", "s", "k", "_", "l", "i", "v", "e", "_", "a">>)

\* The verification call confirmed the key: a response with success and
\* data.
Confirmed(r) == r.kind = "ok" /\ r.success /\ r.hasData

\* C10: login writes Config and the Secret Store only after the
\* verification call has confirmed the key; when verification fails
\* neither is changed and the command exits with a non-zero status.
C10_WritesOnlyAfterVerification ==
  cmd = "login" =>
    /\ (file # startFile \/ vault # startVault) =>
         (verifyAnswer # None /\ Confirmed(verifyAnswer[1]))
    /\ (verifyAnswer # None /\ ~Confirmed(verifyAnswer[1])) =>
         /\ pc = "exited"
         /\ exitCode # None /\ exitCode # Some(0)
         /\ file = startFile
         /\ vault = startVault

\* Login has ended after a verification call that timed out, on a host
\* whose vault is available.
C10_Witness ==
  /\ cmd = "login" /\ pc = "exited" /\ keytarWorks
  /\ verifyAnswer # None /\ verifyAnswer[1].kind = "timeout"

\* C11: for every Config with ASCII string fields, with or without the key
\* identifier and the expiration, saveConfig(config) followed by
\* loadConfig() returns a Config equal to the saved one field for field.
C11_SaveLoadRoundTrip ==
  (lastWrite # None /\ lastWrite[1].by = "save" /\ ~lastWrite[1].threw
     /\ lastLoad # None) =>
    /\ ~lastLoad[1].threw
    /\ lastLoad[1].cfg.keyId = lastWrite[1].cfg.keyId
    /\ lastLoad[1].cfg.apiKeyExpiresAt = lastWrite[1].cfg.apiKeyExpiresAt
    /\ lastLoad[1].cfg.baseUrl = lastWrite[1].cfg.baseUrl
    /\ lastLoad[1].cfg.outputFormat = lastWrite[1].cfg.outputFormat

\* loadConfig has returned after saveConfig wrote a Config without
\* expiration whose key identifier is a backslash followed by a quote.
C11_Witness ==
  /\ lastWrite # None /\ lastWrite[1].by = "save" /\ ~lastWrite[1].threw
  /\ lastWrite[1].cfg.keyId = Some(<<"\\", "\"">>)
  /\ lastWrite[1].cfg.apiKeyExpiresAt = None
  /\ lastLoad # None

\* C12: loadConfig returns the default Config (default base URL,
\* outputFormat "json", no key identifier, no expiration) whenever the
\* config file is absent, and throws, returning no Config, whenever the
\* file exists and its content is not JSON.
C12_LoadDefaultOrParseError ==
  lastLoad # None =>
    /\ file.kind = "absent" =>
         /\ ~lastLoad[1].threw
         /\ lastLoad[1].cfg.keyId = None
         /\ lastLoad[1].cfg.apiKeyExpiresAt = None
         /\ lastLoad[1].cfg.baseUrl =
              "https://us-east4-pdfsummaries.cloudfunctions.net/api"
         /\ lastLoad[1].cfg.outputFormat = "json"
    /\ (lastWrite # None /\ lastWrite[1].by = "edit"
          /\ lastWrite[1].content # None
          /\ lastWrite[1].content[1] \in InvalidTexts) =>
         lastLoad[1].threw

\* loadConfig has thrown on a config file whose content is "{".
C12_Witness ==
  /\ lastLoad # None /\ lastLoad[1].threw
  /\ lastWrite # None /\ lastWrite[1].by = "edit"
  /\ lastWrite[1].content = Some(<<"{">>)

\* C13: rate-limit retries use exponential backoff: within one logical
\* request the wait before each retry after the first is at least twice
\* the wait before the retry that preceded it.
C13_ExponentialBackoff ==
  (lastWait # None /\ lastWait[1].previous # None) =>
    lastWait[1].slept >= 2 * lastWait[1].previous[1]

\* C14: a command that ends in a handled failure has written exactly one
\* message to standard error, nothing of the result to standard output,
\* and exits with status 1.
C14_SingleClassifiedMessage ==
  (pc = "exited" /\ outcome.kind = "error") =>
    /\ Len(stderr) = 1
    /\ \A i \in 1..Len(stdout) : stdout[i] # "result"
    /\ exitCode = Some(1)

\* C15: the filter parameter sent by documents list and documents search
\* is the --filter value when both flags are given, and the --visibility
\* value when only --visibility is given.
C15_VisibilityMappedOntoFilter ==
  (lastSent # None /\ lastSent[1].params # None) =>
    LET given == lastSent[1].params[1].flags
        sent == lastSent[1].params[1].filter
    IN /\ (given.filter # None /\ given.visibility # None) =>
            sent = given.filter[1]
       /\ (given.filter = None /\ given.visibility # None) =>
            sent = given.visibility[1]

\* C16: the requests go to the base URL in ASSAY_BASE_URL when the variable
\* is set, and to the default base URL when it is unset.
C16_BaseUrlFromEnvironment ==
  lastSent # None =>
    lastSent[1].baseURL =
      IF envBaseUrl # None THEN envBaseUrl[1]
      ELSE "https://api.assay.cirrusly-clever.com"

C18_LoginWithoutKeychainResolves ==
  (lastLogin # None /\ ~lastLogin[1].keychain /\ env = None
     /\ Len(lastLogin[1].key) > 10
     /\ lastLogin[1].key[10] # "_"
     /\ lastLogin[1].key[Len(lastLogin[1].key)] # "_"
     /\ cmd \in {"status", "list", "get", "summary", "search", "themes"}
     /\ lastResolve # None) =>
    lastResolve[1].key = Some(lastLogin[1].key)

\* C19: an answer that is an error other than 429, and a transport error
\* without response, ends the request: no attempt follows it, and the
\* error the caller gets is that answer's, as it came.  When it answers the
\* first attempt, the request has made exactly one attempt.
C19_OtherErrorsNotRetried ==
  (lastAnswer # None
     /\ (lastAnswer[1].type = "network"
           \/ lastAnswer[1].status \notin {200, 429})) =>
    /\ pc = "exited"
    /\ exitCode = Some(1)
    /\ outcome.kind = "error" /\ outcome.source = "axios"
    /\ outcome.answer = lastAnswer[1]
    /\ outcome.attempt = attempts
    /\ attempts = n429 + 1
    /\ retryCount = n429

\* A transport error has answered the first attempt of a request.
C19_Witness ==
  /\ pc = "exited" /\ attempts = 1
  /\ lastAnswer # None /\ lastAnswer[1].type = "network"

\* C20: within one process the vault is probed at most once; a call made
\* when the availability is cached does not probe and goes by the cached
\* value; and the cached value, once set, never changes.
C20_ProbedOnce ==
  /\ [](/\ probeCount <= 1
         /\ (lastCall # None /\ lastCall[1].cachedBefore # None) =>
              /\ lastCall[1].probes = 0
              /\ lastCall[1].available = lastCall[1].cachedBefore[1])
  /\ [][keytarAvailable # None => keytarAvailable' = keytarAvailable]_vars

\* getApiKeySecret has been called with the availability cached as true on
\* a vault that has since stopped answering.
C20_Witness ==
  /\ lastCall # None /\ lastCall[1].op = "retrieve"
  /\ lastCall[1].cachedBefore = Some(TRUE)
  /\ ~keytarWorks
  /\ probeCount = 1

C22_LastWriterWins ==
  (/\ cmd = "login" /\ pc = "exited" /\ exitCode = Some(0)
   /\ peer.pc = "exited" /\ peer.exitCode = Some(0)
   /\ keytarAvailable = Some(TRUE) /\ peer.cache = Some(TRUE)
   /\ parsed[1].keyId # << >> /\ parsed[1].keySecret # << >>)
    => /\ file.kind = "json"
       /\ \E l \in {[key |-> parsed[1], expiresAt |-> testResult[1].expiresAt],
                     [key |-> peer.parsed[1], expiresAt |-> peer.expiresAt]} :
            /\ file.cfg.keyId = Some(l.key.keyId)
            /\ file.cfg.apiKeyExpiresAt = l.expiresAt
            /\ vault = Some(l.key.keySecret)

\* C23: login and resolution round-trip.  After a login with pasted key K
\* succeeded on a host whose vault is available, a command run with
\* ASSAY_API_KEY unset, while the config file and the vault hold what that
\* login wrote and the vault answers the read, resolves exactly K, whatever
\* K login accepted.
C23_LoginResolveRoundTrip ==
  (/\ lastLogin # None /\ lastLogin[1].keychain
   /\ cmd \in PipelineCommands
   /\ lastResolve # None /\ lastResolve[1].env = None
   /\ lastResolve[1].file.kind = "json"
   /\ lastResolve[1].file.cfg.keyId =
        Some(ParseApiKey(lastLogin[1].key)[1].keyId)
   /\ lastResolve[1].vault = Some(ParseApiKey(lastLogin[1].key)[1].keySecret)
   /\ lastResolve[1].reads = 1 => lastResolve[1].secret = lastResolve[1].vault)
    => lastResolve[1].key = Some(lastLogin[1].key)

\* C24: sequential logins keep the stored pair consistent.  After a login
\* has exited, succeeded or failed, on a host where a login succeeded
\* before: when the config file holds a key identifier and the vault holds
\* a secret, the two are the identifier and the secret of one and the same
\* key among those the logins pasted (here: keys whose identifier and
\* secret are not empty).
C24_PairFromOnePastedKey ==
  (/\ cmd = "login" /\ pc = "exited" /\ lastLogin # None
   /\ file.kind = "json" /\ file.cfg.keyId # None /\ vault # None
   /\ \A k \in loginKeys : k.keyId # << >> /\ k.keySecret # << >>)
    => \E k \in loginKeys :
         file.cfg.keyId = Some(k.keyId) /\ vault = Some(k.keySecret)

====
